---- MODULE Spec2Model ----
(***************************************************************************)
(* Model of the Ethereum event plugin (src/index.ts). Once setupPlugin has *)
(* filled the shared `global` object, every invocation of runEveryMinute   *)
(* runs one ingestion cycle. Every `await` of runEveryMinute is a          *)
(* suspension point and so a step of its own. The provider, the plugin     *)
(* storage and the capture sink are the environment: getBlockNumber may    *)
(* return any block, every provider call may fail, and a storage.set that  *)
(* was issued completes at any later moment.                               *)
(* SpecPlugin is the plugin from its creation: setupPlugin on any          *)
(* configuration, then the try block of runEveryMinute on one log, with    *)
(* the record it builds from the decoded arguments and the instructions.   *)
(***************************************************************************)
EXTENDS Integers, Sequences, FiniteSets, TLC

\* ---------------------------------------------------------------- bounds
MaxOffset == 1      \* block numbers are 0 and MAX_LOOKBACK .. MAX_LOOKBACK + MaxOffset
MaxLogs   == 2      \* logs on the chain for the watched contract
MaxCycles == 2      \* runEveryMinute invocations in one behaviour
MaxArgs   == 2      \* named arguments of an event, and arguments an instruction file names
MaxVal    == 2      \* decoded integers are 1 .. MaxVal

\* ------------------------------------------------------ program constants
MAX_LOOKBACK == 1000
NULL      == -1     \* storage.get(..., null): no checkpoint persisted
UNDEFINED == -2     \* global.blockNumberToIngestFrom before any assignment

\* slots for invocations of runEveryMinute; an invocation takes the lowest one
\* free, so the second is used only by an invocation that overlaps another
Procs  == {1, 2}
Blocks == {0} \cup { MAX_LOOKBACK + k : k \in 0 .. MaxOffset }
Kinds  == {"event", "nomatch", "anonymous"}
RawLog == [blockNumber : Blocks, kind : Kinds]

\* the hash of a block identifies the block; its timestamp is the block's
BlockHash(b)  == b + 5000
Timestamp(hash) == (hash - 5000) * 13

VARIABLES
    chain,                    \* the contract's logs on the chain, in block order
    storage,                  \* value under STORAGE_KEY_LAST_INGESTED_BLOCK_NUMBER
    pending,                  \* storage.set calls issued and not yet completed
    blockNumberToIngestFrom,  \* global.blockNumberToIngestFrom
    cyc,                      \* per invocation: the locals of runEveryMinute
    ncycles,                  \* invocations started so far
    prev,                     \* the invocation that finished last
    hist,                     \* windows queried by the completed invocations
    global,                   \* meta.global but for blockNumberToIngestFrom
    setup,                    \* how setupPlugin ended, and on which configuration
    tx                        \* the log handled by the try block, and what became of it

vars == <<chain, storage, pending, blockNumberToIngestFrom, cyc, ncycles, prev, hist,
          global, setup, tx>>

\* ------------------------------------------------------------ pure parts
RECURSIVE SelectLogs(_, _, _)
SelectLogs(s, from, to) ==
    IF s = <<>> THEN <<>>
    ELSE IF from <= Head(s).blockNumber /\ Head(s).blockNumber <= to
         THEN <<Head(s)>> \o SelectLogs(Tail(s), from, to)
         ELSE SelectLogs(Tail(s), from, to)

BlocksIn(from, to) == { b \in Blocks : from <= b /\ b <= to }

IsSorted(s) == \A i \in 1 .. Len(s) - 1 : s[i].blockNumber <= s[i + 1].blockNumber

\* line 109: (await getLastIngestedBlockNumber(storage)) ?? latestBlockNumber
LastIngestedOrLatest(stored, latest) == IF stored = NULL THEN latest ELSE stored

\* line 116: latestBlockNumber - lastIngestedBlockNumber > 1000
TooFarBehind(latest, lastIngested) == latest - lastIngested > MAX_LOOKBACK

\* the clamp one block short of the lookback
ClampedFromOffByOne(latest) == latest - MAX_LOOKBACK + 1

\* line 120: global.blockNumberToIngestFrom = latestBlockNumber - 1000
ClampedFrom(latest) == latest - MAX_LOOKBACK

\* line 125: fromBlock: global.blockNumberToIngestFrom
FromBlockArg(globalFrom, lastIngested) == globalFrom

\* line 179: setLastIngestedBlockNumber(storage, latestBlockNumber)
NewCheckpoint(latest, lastIngested) == latest

\* lines 34-38: getEvent(log.topics[0]); no fragment or an anonymous one gives null
\* (null is the empty sequence, a parsed log a one-element sequence)
ParseLog(log) == IF log.kind = "event" THEN <<[name |-> "Transfer", log |-> log]>> ELSE <<>>

\* lines 139-177: what the try block can do with one log: with a null parsedLog
\* line 145 throws and the catch logs it; otherwise the record is captured,
\* unless the transformation or posthog.capture throws
Outcomes(log) == IF ParseLog(log) = <<>> THEN {"error"} ELSE {"captured", "error"}

\* the record is captured twice
CaptureTwice(emitted, log, outcome) ==
    IF outcome = "captured"
    THEN emitted \o << [event |-> ParseLog(log)[1].name,
                        blockNumber |-> log.blockNumber,
                        blockHash |-> BlockHash(log.blockNumber),
                        timestamp |-> Timestamp(BlockHash(log.blockNumber))],
                       [event |-> ParseLog(log)[1].name,
                        blockNumber |-> log.blockNumber,
                        blockHash |-> BlockHash(log.blockNumber),
                        timestamp |-> Timestamp(BlockHash(log.blockNumber))] >>
    ELSE emitted

\* line 174: posthog.capture(parsedLog.name, eventData)
Capture(emitted, log, outcome) ==
    IF outcome = "captured"
    THEN Append(emitted, [event |-> ParseLog(log)[1].name,
                          blockNumber |-> log.blockNumber,
                          blockHash |-> BlockHash(log.blockNumber),
                          timestamp |-> Timestamp(BlockHash(log.blockNumber))])
    ELSE emitted

RemoveAt(s, i) == [j \in 1 .. Len(s) - 1 |-> IF j < i THEN s[j] ELSE s[j + 1]]

\* what is remembered of an invocation that returned
NoSummary ==
    [no |-> 0, pc |-> "idle", abortedAt |-> "none", latest |-> NULL, stored |-> NULL,
     fromBlock |-> UNDEFINED, toBlock |-> NULL, emitted |-> <<>>]

Summary(c) ==
    [no |-> c.no, pc |-> c.pc, abortedAt |-> c.abortedAt, latest |-> c.latest,
     stored |-> c.stored, fromBlock |-> c.fromBlock, toBlock |-> c.toBlock,
     emitted |-> c.emitted]

IdleCycle ==
    [pc |-> "idle", no |-> 0, latest |-> NULL, stored |-> NULL, lastIngested |-> NULL,
     fromBlock |-> UNDEFINED, toBlock |-> NULL, window |-> {}, warned |-> FALSE,
     logs |-> <<>>, idx |-> 1, blockTimestamps |-> {}, fetches |-> 0,
     emitted |-> <<>>, outcome |-> <<>>, reads |-> 0, writes |-> 0, setValue |-> NULL,
     abortedAt |-> "none",
     before |-> NoSummary]

Running(p) == cyc[p].pc \notin {"idle", "done", "aborted"}

\* ------------------------------------------- setupPlugin and the try block
\* values as the ABI decoder hands them out (lines 43-53): an integer as the
\* hex string of BigNumber.toHexString, a bool, a bytes32; and what the
\* coercions make of them. A value is its representation and its content.
Hex(n)     == [repr |-> "hex", val |-> n]
Bool(n)    == [repr |-> "bool", val |-> n]
Bytes32(n) == [repr |-> "bytes32", val |-> n]
Num(n)     == [repr |-> "number", val |-> n]
Hash(n)    == [repr |-> "hash", val |-> n]

DecodedValues == { Hex(n) : n \in 1 .. MaxVal } \cup {Bool(1), Bytes32(1)}

\* names of event arguments; a contract may give an argument any name
ArgNames == {"to", "blockNumber", "distinct_id"}

\* README: Options are: 'eth', 'number', 'int', 'boolean', 'hex', and 'string'
ArgTypeOptions == {"eth", "number", "int", "boolean", "hex", "string"}

\* lines 12-15: argType "none" is an instruction without argType
ArgInstruction == [argType : ArgTypeOptions \cup {"none"}, isDistinctId : BOOLEAN]

\* line 16: the instructions of one event, for at most MaxArgs argument names
EventParsingInstruction ==
    UNION { [D -> ArgInstruction] : D \in { S \in SUBSET ArgNames : Cardinality(S) <= MaxArgs } }

EmptyRecord == [k \in {} |-> Num(0)]

\* global.eventParsingInstructions: undefined, or by event name the
\* instructions of the event; the ABI of the model has the one event Transfer
NoInstructions == [defined |-> FALSE, byEvent |-> EmptyRecord]

InstructionFiles ==
    { [defined |-> TRUE, byEvent |-> EmptyRecord] }
        \cup { [defined |-> TRUE, byEvent |-> [e \in {"Transfer"} |-> f]] :
                  f \in EventParsingInstruction }

\* lines 18-24 before setupPlugin has run
UndefinedGlobal ==
    [provider |-> FALSE, contract |-> FALSE, contractInterface |-> FALSE,
     eventParsingInstructions |-> NoInstructions]

\* meta.config and meta.attachments as setupPlugin sees them
Metas ==
    { m \in [contractAddress : BOOLEAN,
             contractABI : {"missing", "valid", "invalid"},
             file : {"missing", "valid", "invalid"},
             instructions : {NoInstructions} \cup InstructionFiles] :
        m.instructions.defined <=> m.file = "valid" }

\* the parsing instructions and the provider are installed before the
\* configuration is looked at
SetupGlobalInstallsFirst(g, m) ==
    LET g1 == IF m.file = "valid"
              THEN [g EXCEPT !.eventParsingInstructions = m.instructions]
              ELSE g
        g2 == [g1 EXCEPT !.provider = TRUE]
    IN IF ~m.contractAddress
       THEN [global |-> g2, result |-> "Contract address not provided!"]
       ELSE IF m.contractABI = "missing"
       THEN [global |-> g2, result |-> "Contract ABI not provided!"]
       ELSE IF m.file = "invalid" \/ m.contractABI = "invalid"
       THEN [global |-> g2, result |-> "SyntaxError"]
       ELSE [global |-> [g2 EXCEPT !.contract = TRUE, !.contractInterface = TRUE],
             result |-> "ok"]

\* lines 76-93: the global object setupPlugin leaves behind and how it ends
SetupGlobal(g, m) ==
    IF ~m.contractAddress
    THEN [global |-> g, result |-> "Contract address not provided!"]
    ELSE IF m.contractABI = "missing"
    THEN [global |-> g, result |-> "Contract ABI not provided!"]
    ELSE IF m.file = "invalid"
    THEN [global |-> g, result |-> "SyntaxError"]
    ELSE LET g1 == IF m.file = "valid"
                   THEN [g EXCEPT !.eventParsingInstructions = m.instructions]
                   ELSE g
             g2 == [g1 EXCEPT !.provider = TRUE]
         IN IF m.contractABI = "invalid"
            THEN [global |-> g2, result |-> "SyntaxError"]
            ELSE [global |-> [g2 EXCEPT !.contract = TRUE, !.contractInterface = TRUE],
                  result |-> "ok"]

\* lines 157-165: the coercion of one argument value; BigNumber.from rejects a
\* bool, toNumber a value of more than 53 bits such as a bytes32,
\* parseBytes32String anything that is not 32 bytes long; an argType for which
\* the chain of ifs has no branch leaves the value as it is
Coerce(argType, v) ==
    IF argType = "eth"
    THEN IF v.repr \in {"hex", "bytes32"}
         THEN [ok |-> TRUE, value |-> [repr |-> "ether", val |-> v.val]]
         ELSE [ok |-> FALSE, value |-> v]
    ELSE IF argType = "string"
    THEN IF v.repr = "bytes32"
         THEN [ok |-> TRUE, value |-> [repr |-> "text", val |-> v.val]]
         ELSE [ok |-> FALSE, value |-> v]
    ELSE IF argType = "number"
    THEN IF v.repr = "hex"
         THEN [ok |-> TRUE, value |-> Num(v.val)]
         ELSE [ok |-> FALSE, value |-> v]
    ELSE [ok |-> TRUE, value |-> v]

\* eventData[key] = value
SetField(eventData, key, value) ==
    [k \in DOMAIN eventData \cup {key} |-> IF k = key THEN value ELSE eventData[k]]

\* lines 141-146: the base fields, then the spread of parsedLog.namedArgs
RECURSIVE Spread(_, _)
Spread(eventData, namedArgs) ==
    IF namedArgs = <<>> THEN eventData
    ELSE Spread(SetField(eventData, Head(namedArgs).name, Head(namedArgs).value),
                Tail(namedArgs))

BaseFields(blockNumber) ==
    SetField(SetField(SetField(EmptyRecord,
        "$timestamp", Num(Timestamp(BlockHash(blockNumber)))),
        "blockNumber", Num(blockNumber)),
        "blockHash", Hash(BlockHash(blockNumber)))

\* lines 153-171: the arguments in the order of Object.keys(namedArgs); a
\* coercion that throws ends the try block
RECURSIVE ApplyInstructions(_, _, _)
ApplyInstructions(eventData, namedArgs, instruction) ==
    IF namedArgs = <<>> THEN [ok |-> TRUE, eventData |-> eventData]
    ELSE LET argName == Head(namedArgs).name
         IN IF argName \notin DOMAIN instruction
            THEN ApplyInstructions(eventData, Tail(namedArgs), instruction)
            ELSE LET c  == Coerce(instruction[argName].argType, Head(namedArgs).value)
                     e1 == IF instruction[argName].isDistinctId
                           THEN SetField(eventData, "distinct_id", c.value)
                           ELSE eventData
                 IN IF ~c.ok
                    THEN [ok |-> FALSE, eventData |-> eventData]
                    ELSE ApplyInstructions(SetField(e1, argName, c.value),
                                           Tail(namedArgs), instruction)

\* lines 141-173: the record built for a parsed log
EventData(namedArgs, blockNumber, instructions) ==
    LET seeded == Spread(BaseFields(blockNumber), namedArgs)
    IN IF instructions.defined /\ "Transfer" \in DOMAIN instructions.byEvent
       THEN ApplyInstructions(seeded, namedArgs, instructions.byEvent["Transfer"])
       ELSE [ok |-> TRUE, eventData |-> seeded]

\* the named arguments parseLog returns for a log of the event (lines 43-59):
\* at most MaxArgs arguments, of different names, in the order of the ABI
NamedArgs ==
    { a \in UNION { [1 .. n -> [name : ArgNames, value : DecodedValues]] : n \in 0 .. MaxArgs } :
        \A i, j \in 1 .. Len(a) : i # j => a[i].name # a[j].name }

NoSetup == [result |-> "none", contractAddress |-> FALSE, contractABI |-> "missing",
            file |-> "missing"]

IdleTx == [pc |-> "idle", kind |-> "event", namedArgs |-> <<>>, blockNumber |-> 0,
           eventData |-> EmptyRecord]

\* ------------------------------------------------------------------ Init
Init ==
    /\ chain \in { s \in UNION { [1 .. n -> RawLog] : n \in 0 .. MaxLogs } : IsSorted(s) }
    /\ storage \in {NULL} \cup Blocks
    /\ pending = <<>>
    /\ blockNumberToIngestFrom = UNDEFINED
    /\ cyc = [p \in Procs |-> IdleCycle]
    /\ ncycles = 0
    /\ prev = NoSummary
    /\ hist = [c0 |-> NULL, clamped |-> FALSE, covered |-> {}, written |-> FALSE]
    /\ global = [UndefinedGlobal EXCEPT !.provider = TRUE, !.contract = TRUE,
                                        !.contractInterface = TRUE]
    /\ setup = [result |-> "ok", contractAddress |-> TRUE, contractABI |-> "valid",
                file |-> "missing"]
    /\ tx = IdleTx

\* --------------------------------------------------------------- actions
\* lines 96-104: the scheduler invokes runEveryMinute, one invocation at a time;
\* the locals of the invocations that returned are gone
Start(p) ==
    /\ \A q \in Procs : ~Running(q)
    /\ \A q \in Procs : p <= q
    /\ ncycles < MaxCycles
    /\ ncycles' = ncycles + 1
    /\ cyc' = [q \in Procs |-> IF q = p
                                THEN [IdleCycle EXCEPT !.pc = "getBlockNumber",
                                                       !.no = ncycles + 1,
                                                       !.before = prev]
                                ELSE IF Running(q) THEN cyc[q] ELSE IdleCycle]
    /\ UNCHANGED <<global, setup, tx, chain, storage, pending, blockNumberToIngestFrom, prev, hist>>

Abort(p, where) ==
    /\ cyc' = [cyc EXCEPT ![p].pc = "aborted", ![p].abortedAt = where]
    /\ prev' = Summary(cyc'[p])

\* line 106: await provider.getBlockNumber()
GetBlockNumber(p) ==
    /\ cyc[p].pc = "getBlockNumber"
    /\ \E h \in Blocks : cyc' = [cyc EXCEPT ![p].pc = "getCheckpoint", ![p].latest = h]
    /\ UNCHANGED <<global, setup, tx, chain, storage, pending, blockNumberToIngestFrom, ncycles, prev, hist>>

GetBlockNumberFails(p) ==
    /\ cyc[p].pc = "getBlockNumber"
    /\ Abort(p, "getBlockNumber")
    /\ UNCHANGED <<global, setup, tx, chain, storage, pending, blockNumberToIngestFrom, ncycles, hist>>

\* lines 109-127: the checkpoint is read, the window start is clamped when the
\* checkpoint is too far behind the head, and getLogs is called
GetCheckpoint(p) ==
    /\ cyc[p].pc = "getCheckpoint"
    /\ LET latest       == cyc[p].latest
           lastIngested == LastIngestedOrLatest(storage, latest)
           clamp        == TooFarBehind(latest, lastIngested)
           globalFrom   == IF clamp THEN ClampedFrom(latest) ELSE blockNumberToIngestFrom
       IN /\ blockNumberToIngestFrom' = globalFrom
          /\ cyc' = [cyc EXCEPT ![p].pc = "getLogs",
                                ![p].stored = storage,
                                ![p].lastIngested = lastIngested,
                                ![p].reads = @ + 1,
                                ![p].warned = clamp,
                                ![p].fromBlock = FromBlockArg(globalFrom, lastIngested),
                                ![p].toBlock = latest]
          /\ hist' = [hist EXCEPT !.c0 = IF cyc[p].no = 1 THEN lastIngested ELSE @,
                                  !.clamped = @ \/ clamp]
    /\ UNCHANGED <<global, setup, tx, chain, storage, pending, ncycles, prev>>

\* lines 123-127: getLogs answers with the contract's logs of the window; a
\* request without fromBlock is served from the node's latest block n, which is
\* the head the invocation was given or a later one
GetLogs(p) ==
    /\ cyc[p].pc = "getLogs"
    /\ \E n \in Blocks :
         LET from == IF cyc[p].fromBlock = UNDEFINED THEN n ELSE cyc[p].fromBlock
         IN /\ n >= cyc[p].toBlock
            /\ cyc[p].fromBlock # UNDEFINED => n = cyc[p].toBlock
            /\ cyc' = [cyc EXCEPT ![p].pc = "loop",
                                  ![p].window = BlocksIn(from, cyc[p].toBlock),
                                  ![p].logs = SelectLogs(chain, from, cyc[p].toBlock)]
    /\ UNCHANGED <<global, setup, tx, chain, storage, pending, blockNumberToIngestFrom, ncycles, prev, hist>>

\* the failure is swallowed and the invocation goes on without logs
GetLogsFailsSwallowed(p) ==
    /\ cyc[p].pc = "getLogs"
    /\ cyc' = [cyc EXCEPT ![p].pc = "loop", ![p].abortedAt = "getLogs",
                          ![p].window = {}]
    /\ UNCHANGED <<global, setup, tx, chain, storage, pending, blockNumberToIngestFrom, ncycles, prev, hist>>

GetLogsFails(p) ==
    /\ cyc[p].pc = "getLogs"
    /\ Abort(p, "getLogs")
    /\ UNCHANGED <<global, setup, tx, chain, storage, pending, blockNumberToIngestFrom, ncycles, hist>>

\* the catch block rethrows
ProcessLogRethrow(p, cache, fetched) ==
    LET log == cyc[p].logs[cyc[p].idx]
    IN \E o \in Outcomes(log) :
         cyc' = [cyc EXCEPT ![p].blockTimestamps = cache,
                            ![p].fetches = @ + fetched,
                            ![p].emitted = Capture(@, log, o),
                            ![p].outcome = Append(@, o),
                            ![p].idx = @ + 1,
                            ![p].pc = IF o = "error" THEN "aborted" ELSE @,
                            ![p].abortedAt = IF o = "error" THEN "processLog" ELSE @]

\* lines 139-177 for the log at cyc[p].idx
ProcessLog(p, cache, fetched) ==
    LET log == cyc[p].logs[cyc[p].idx]
    IN \E o \in Outcomes(log) :
         cyc' = [cyc EXCEPT ![p].blockTimestamps = cache,
                            ![p].fetches = @ + fetched,
                            ![p].emitted = Capture(@, log, o),
                            ![p].outcome = Append(@, o),
                            ![p].idx = @ + 1]

\* lines 131-132: the block's timestamp is in the cache
LoopCached(p) ==
    /\ cyc[p].pc = "loop"
    /\ cyc[p].idx <= Len(cyc[p].logs)
    /\ BlockHash(cyc[p].logs[cyc[p].idx].blockNumber) \in cyc[p].blockTimestamps
    /\ ProcessLog(p, cyc[p].blockTimestamps, 0)
    /\ UNCHANGED <<global, setup, tx, chain, storage, pending, blockNumberToIngestFrom, ncycles, prev, hist>>

\* the fetched timestamp is not put into the cache
LoopFetchNoCache(p) ==
    /\ cyc[p].pc = "loop"
    /\ cyc[p].idx <= Len(cyc[p].logs)
    /\ BlockHash(cyc[p].logs[cyc[p].idx].blockNumber) \notin cyc[p].blockTimestamps
    /\ ProcessLog(p, cyc[p].blockTimestamps, 1)
    /\ UNCHANGED <<global, setup, tx, chain, storage, pending, blockNumberToIngestFrom, ncycles, prev, hist>>

\* lines 134-136: the timestamp is fetched with getBlock and cached
LoopFetch(p) ==
    /\ cyc[p].pc = "loop"
    /\ cyc[p].idx <= Len(cyc[p].logs)
    /\ LET hash == BlockHash(cyc[p].logs[cyc[p].idx].blockNumber)
       IN /\ hash \notin cyc[p].blockTimestamps
          /\ ProcessLog(p, cyc[p].blockTimestamps \cup {hash}, 1)
    /\ UNCHANGED <<global, setup, tx, chain, storage, pending, blockNumberToIngestFrom, ncycles, prev, hist>>

\* the failing getBlock is handled like a failure inside the try block
GetBlockFailsIsolated(p) ==
    /\ cyc[p].pc = "loop"
    /\ cyc[p].idx <= Len(cyc[p].logs)
    /\ BlockHash(cyc[p].logs[cyc[p].idx].blockNumber) \notin cyc[p].blockTimestamps
    /\ cyc' = [cyc EXCEPT ![p].abortedAt = "getBlock",
                          ![p].outcome = Append(@, "error"),
                          ![p].idx = @ + 1]
    /\ UNCHANGED <<global, setup, tx, chain, storage, pending, blockNumberToIngestFrom, ncycles, prev, hist>>

\* line 134 is outside the try block: a failing getBlock ends the invocation
GetBlockFails(p) ==
    /\ cyc[p].pc = "loop"
    /\ cyc[p].idx <= Len(cyc[p].logs)
    /\ BlockHash(cyc[p].logs[cyc[p].idx].blockNumber) \notin cyc[p].blockTimestamps
    /\ Abort(p, "getBlock")
    /\ UNCHANGED <<global, setup, tx, chain, storage, pending, blockNumberToIngestFrom, ncycles, hist>>

\* the checkpoint is written before the loop is through
SetCheckpointEarly(p) ==
    /\ cyc[p].pc = "loop"
    /\ pending' = Append(pending, [value |-> NewCheckpoint(cyc[p].latest, cyc[p].lastIngested),
                                    no |-> cyc[p].no])
    /\ cyc' = [cyc EXCEPT ![p].pc = "done", ![p].writes = @ + 1,
                          ![p].setValue = NewCheckpoint(cyc[p].latest, cyc[p].lastIngested)]
    /\ prev' = Summary(cyc'[p])
    /\ hist' = [hist EXCEPT !.covered = @ \cup cyc[p].window]
    /\ UNCHANGED <<global, setup, tx, chain, storage, blockNumberToIngestFrom, ncycles>>

\* lines 179-180: storage.set is called and not awaited; the invocation returns
SetCheckpoint(p) ==
    /\ cyc[p].pc = "loop"
    /\ cyc[p].idx > Len(cyc[p].logs)
    /\ pending' = Append(pending, [value |-> NewCheckpoint(cyc[p].latest, cyc[p].lastIngested),
                                    no |-> cyc[p].no])
    /\ cyc' = [cyc EXCEPT ![p].pc = "done", ![p].writes = @ + 1,
                          ![p].setValue = NewCheckpoint(cyc[p].latest, cyc[p].lastIngested)]
    /\ prev' = Summary(cyc'[p])
    /\ hist' = [hist EXCEPT !.covered = @ \cup cyc[p].window]
    /\ UNCHANGED <<global, setup, tx, chain, storage, blockNumberToIngestFrom, ncycles>>

\* lines 67-69: a storage.set issued earlier completes
StorageSet(i) ==
    /\ i \in 1 .. Len(pending)
    /\ storage' = pending[i].value
    /\ pending' = RemoveAt(pending, i)
    /\ hist' = [hist EXCEPT !.written = TRUE]
    /\ UNCHANGED <<global, setup, tx, chain, blockNumberToIngestFrom, cyc, ncycles, prev>>

Next ==
    \/ \E p \in Procs : Start(p)
    \/ \E p \in Procs : GetBlockNumber(p)
    \/ \E p \in Procs : GetBlockNumberFails(p)
    \/ \E p \in Procs : GetCheckpoint(p)
    \/ \E p \in Procs : GetLogs(p)
    \/ \E p \in Procs : GetLogsFails(p)
    \/ \E p \in Procs : LoopCached(p)
    \/ \E p \in Procs : LoopFetch(p)
    \/ \E p \in Procs : GetBlockFails(p)
    \/ \E p \in Procs : SetCheckpoint(p)
    \/ \E i \in 1 .. MaxCycles : StorageSet(i)

Spec == Init /\ [][Next]_vars

\* ------------------------------------------ setupPlugin and one parsed log
\* the plugin server has created the plugin; setupPlugin has not run
InitPlugin ==
    /\ chain = <<>>
    /\ storage = NULL
    /\ pending = <<>>
    /\ blockNumberToIngestFrom = UNDEFINED
    /\ cyc = [p \in Procs |-> IdleCycle]
    /\ ncycles = 0
    /\ prev = NoSummary
    /\ hist = [c0 |-> NULL, clamped |-> FALSE, covered |-> {}, written |-> FALSE]
    /\ global = UndefinedGlobal
    /\ setup = NoSetup
    /\ tx = IdleTx

\* lines 71-94: setupPlugin has no await and runs in one step
SetupPlugin ==
    /\ setup.result = "none"
    /\ \E m \in Metas :
         LET r == SetupGlobal(global, m)
         IN /\ global' = r.global
            /\ setup' = [result |-> r.result, contractAddress |-> m.contractAddress,
                         contractABI |-> m.contractABI, file |-> m.file]
    /\ UNCHANGED <<tx, chain, storage, pending, blockNumberToIngestFrom, cyc, ncycles,
                   prev, hist>>

\* lines 139-177 for one log: a null parsedLog throws at line 145, a coercion
\* may throw, posthog.capture may throw; every throw ends in the catch
HandleLog ==
    /\ setup.result = "ok"
    /\ tx.pc = "idle"
    /\ \E kind \in Kinds, namedArgs \in NamedArgs, b \in Blocks, captureThrows \in BOOLEAN :
         LET r == EventData(namedArgs, b, global.eventParsingInstructions)
         IN /\ kind # "event" => (namedArgs = <<>> /\ ~captureThrows)
            /\ ~r.ok => ~captureThrows
            /\ tx' = [pc |-> IF kind = "event" /\ r.ok /\ ~captureThrows
                             THEN "captured" ELSE "error",
                      kind |-> kind, namedArgs |-> namedArgs, blockNumber |-> b,
                      eventData |-> IF kind = "event" /\ r.ok THEN r.eventData
                                    ELSE EmptyRecord]
    /\ UNCHANGED <<global, setup, chain, storage, pending, blockNumberToIngestFrom, cyc,
                   ncycles, prev, hist>>

NextPlugin == SetupPlugin \/ HandleLog

SpecPlugin == InitPlugin /\ [][NextPlugin]_vars

\* ===================================================================
\* Properties
\* ===================================================================

\* the invocation in slot p has called getLogs
Queried(p) == cyc[p].toBlock # NULL

\* C1: when the checkpoint (or, without one, the head) is at most MAX_LOOKBACK
\* behind the head, getLogs is called with fromBlock = lastIngested and
\* toBlock = latest.
C1_UnclampedWindow ==
    \A p \in Procs :
        (Queried(p) /\ cyc[p].lastIngested >= cyc[p].latest - MAX_LOOKBACK)
            => (cyc[p].fromBlock = cyc[p].lastIngested /\ cyc[p].toBlock = cyc[p].latest)

\* C2: an invocation that completes right after a completed invocation with the
\* same head (the chain's logs never change) captures nothing and writes the
\* same checkpoint as the first.
C2_SecondRunIdempotent ==
    \A p \in Procs :
        (cyc[p].pc = "done" /\ cyc[p].before.pc = "done"
                            /\ cyc[p].before.latest = cyc[p].latest)
            => (cyc[p].emitted = <<>>
                /\ \A i \in 1 .. Len(pending) :
                      pending[i].no = cyc[p].no => pending[i].value = cyc[p].before.latest)

\* what an invocation with no invocation before it passes as fromBlock
FreshFromBlock(stored, latest) ==
    IF latest - (IF stored = NULL THEN latest ELSE stored) > MAX_LOOKBACK
    THEN latest - MAX_LOOKBACK
    ELSE UNDEFINED

\* C3: the window of an invocation is determined by the checkpoint it reads and
\* the head it queries: whatever invocations ran before, it passes to getLogs
\* what the very first invocation of a process passes for the same checkpoint
\* and head.
C3_NoStateAcrossCycles ==
    \A p \in Procs :
        Queried(p) => (cyc[p].fromBlock = FreshFromBlock(cyc[p].stored, cyc[p].latest)
                       /\ cyc[p].toBlock = cyc[p].latest)

\* C4: with no invocation clamped, once a checkpoint c written by an invocation
\* is persisted, every block from the first invocation's lastIngested up to c
\* lay in the getLogs window of an invocation that completed.
C4_CheckpointFullyIngested ==
    (hist.written /\ ~hist.clamped /\ hist.c0 # NULL)
        => \A b \in Blocks : (hist.c0 <= b /\ b <= storage) => b \in hist.covered

\* C5: when the head is more than MAX_LOOKBACK above lastIngested, getLogs is
\* called with fromBlock = latest - MAX_LOOKBACK (not lastIngested) and
\* toBlock = latest, the warning is logged, and the invocation goes on: it can
\* only end early through a failing provider call, and when it completes it has
\* written the checkpoint.
C5_ClampedWindow ==
    \A p \in Procs :
        (cyc[p].reads = 1 /\ cyc[p].latest - cyc[p].lastIngested > MAX_LOOKBACK)
            => /\ Queried(p)
               /\ cyc[p].fromBlock = cyc[p].latest - MAX_LOOKBACK
               /\ cyc[p].fromBlock # cyc[p].lastIngested
               /\ cyc[p].toBlock = cyc[p].latest
               /\ cyc[p].warned
               /\ cyc[p].pc \in {"getLogs", "loop", "done", "aborted"}
               /\ cyc[p].pc = "aborted" => cyc[p].abortedAt \in {"getLogs", "getBlock"}
               /\ cyc[p].pc = "done" => cyc[p].writes = 1

C5_Witness ==
    \E p \in Procs :
        /\ cyc[p].pc = "done"
        /\ cyc[p].latest - cyc[p].lastIngested > MAX_LOOKBACK
        /\ cyc[p].stored # NULL
        /\ cyc[p].logs # <<>>

\* C6: the persisted checkpoint never decreases, whatever heads getBlockNumber
\* returns to the successive invocations.
C6_CheckpointMonotonic == [][storage' >= storage]_vars

\* C7: an invocation reads the checkpoint once and calls storage.set at most
\* once, and only after every log of its window has been processed: no write of
\* the invocation is issued or takes effect while logs are left.
C7_ReadOnceWriteAtEnd ==
    \A p \in Procs :
        /\ cyc[p].reads <= 1
        /\ cyc[p].writes <= 1
        /\ cyc[p].pc \in {"getLogs", "loop", "done"} => cyc[p].reads = 1
        /\ cyc[p].writes = 1 => (cyc[p].pc = "done" /\ Len(cyc[p].outcome) = Len(cyc[p].logs))
        /\ cyc[p].no > 0 =>
              /\ Cardinality({ i \in 1 .. Len(pending) : pending[i].no = cyc[p].no })
                    <= cyc[p].writes
              /\ (cyc[p].pc = "loop" /\ cyc[p].idx <= Len(cyc[p].logs)) => cyc[p].writes = 0

C7_Witness ==
    \E p \in Procs :
        /\ cyc[p].pc = "done"
        /\ Len(cyc[p].logs) >= 2
        /\ cyc[p].reads = 1
        /\ cyc[p].writes = 1

\* C8: when an invocation has finished without aborting, the persisted
\* checkpoint is the head that invocation queried.
C8_DoneMeansPersisted ==
    \A p \in Procs : cyc[p].pc = "done" => storage = cyc[p].latest

C9_AbortedInvocation ==
    \A p \in Procs :
        /\ cyc[p].abortedAt \in {"getBlockNumber", "getLogs"} =>
              /\ cyc[p].pc = "aborted"
              /\ cyc[p].emitted = <<>>
              /\ cyc[p].outcome = <<>>
              /\ cyc[p].writes = 0
              /\ \A i \in 1 .. Len(pending) : pending[i].no # cyc[p].no
        /\ (/\ Queried(p)
            /\ cyc[p].before.pc = "aborted"
            /\ cyc[p].before.abortedAt = "getLogs"
            /\ cyc[p].stored = cyc[p].before.stored
            /\ cyc[p].latest = cyc[p].before.latest)
              => (cyc[p].fromBlock = cyc[p].before.fromBlock
                  /\ cyc[p].toBlock = cyc[p].before.toBlock)

C9_AbortStep ==
    \A p \in Procs :
        (cyc[p].pc # "aborted" /\ cyc'[p].pc = "aborted"
                               /\ cyc'[p].abortedAt \in {"getBlockNumber", "getLogs"})
            => (storage' = storage /\ pending' = pending)

C10_PerLogFailureIsolated ==
    \A p \in Procs :
        /\ cyc[p].pc = "aborted" => cyc[p].abortedAt \in {"getBlockNumber", "getLogs", "getBlock"}
        /\ cyc[p].pc = "loop" => Len(cyc[p].outcome) = cyc[p].idx - 1
        /\ cyc[p].pc = "done" =>
              /\ Len(cyc[p].outcome) = Len(cyc[p].logs)
              /\ cyc[p].writes = 1
              /\ cyc[p].setValue = cyc[p].latest

C10_Witness ==
    \E p \in Procs :
        /\ cyc[p].pc = "done"
        /\ Len(cyc[p].outcome) = 2
        /\ cyc[p].outcome[1] = "error"
        /\ cyc[p].logs[1].kind = "event"
        /\ cyc[p].outcome[2] = "captured"

\* the records that the logs of s with outcome "captured" give, in the order of s
RECURSIVE CapturedOf(_, _)
CapturedOf(s, o) ==
    IF s = <<>> \/ o = <<>> THEN <<>>
    ELSE (IF Head(o) = "captured"
          THEN <<[event |-> "Transfer",
                  blockNumber |-> Head(s).blockNumber,
                  blockHash |-> BlockHash(Head(s).blockNumber),
                  timestamp |-> Timestamp(BlockHash(Head(s).blockNumber))]>>
          ELSE <<>>) \o CapturedOf(Tail(s), Tail(o))

\* C11: the logs are processed one at a time in the order getLogs returned
\* them, and the records captured so far are, in that order, exactly one record
\* under the event's name for every processed log that decoded to a known event
\* and in whose try block nothing threw.
C11_OneCapturePerEvent ==
    \A p \in Procs :
        /\ Len(cyc[p].outcome) = cyc[p].idx - 1
        /\ Len(cyc[p].outcome) <= Len(cyc[p].logs)
        /\ cyc[p].emitted = CapturedOf(cyc[p].logs, cyc[p].outcome)
        /\ \A i \in 1 .. Len(cyc[p].outcome) :
              cyc[p].outcome[i] = "captured" => cyc[p].logs[i].kind = "event"

C11_Witness ==
    \E p \in Procs :
        /\ cyc[p].pc = "done"
        /\ Len(cyc[p].logs) = 2
        /\ cyc[p].logs[1].blockNumber # cyc[p].logs[2].blockNumber
        /\ cyc[p].outcome = <<"captured", "captured">>
        /\ Len(cyc[p].emitted) = 2
        /\ cyc[p].emitted[1].blockNumber = cyc[p].logs[1].blockNumber

\* C12: a log that matches no event of the ABI, or an anonymous one, is skipped
\* silently: processing it captures nothing and logs no error.
C12_SilentSkip ==
    \A p \in Procs :
        \A i \in 1 .. Len(cyc[p].outcome) :
            cyc[p].logs[i].kind # "event" => cyc[p].outcome[i] # "error"

\* the block hashes of the logs s
HashesOf(s) == { BlockHash(s[i].blockNumber) : i \in 1 .. Len(s) }

\* C13: the timestamp cache belongs to one invocation: it holds the hashes of
\* the logs this invocation has processed and nothing of an earlier invocation,
\* every getBlock call adds one hash, and an invocation that completes has
\* called getBlock once for every distinct block hash among its logs.
C13_PerCycleMemoization ==
    \A p \in Procs :
        /\ cyc[p].blockTimestamps = HashesOf(SubSeq(cyc[p].logs, 1, Len(cyc[p].outcome)))
        /\ cyc[p].fetches = Cardinality(cyc[p].blockTimestamps)
        /\ cyc[p].pc = "done" => cyc[p].fetches = Cardinality(HashesOf(cyc[p].logs))

C13_Witness ==
    \E p \in Procs :
        /\ cyc[p].pc = "done"
        /\ Len(cyc[p].logs) = 2
        /\ cyc[p].logs[1].blockNumber = cyc[p].logs[2].blockNumber
        /\ cyc[p].fetches = 1
        /\ cyc[p].before.pc = "done"
        /\ cyc[p].before.emitted # <<>>
        /\ cyc[p].before.emitted[1].blockHash = BlockHash(cyc[p].logs[1].blockNumber)

\* C18: a failing getBlock ends the invocation at that log: the logs from it on
\* are not processed, no storage.set is called, and the records captured before
\* stay captured; the next invocation, reading the same checkpoint under the
\* same head, asks getLogs for the same window, is answered with the logs whose
\* records the ended invocation had captured, and captures every one of them
\* that it processes without a failure once more.
C18_GetBlockFailureAborts ==
    \A p \in Procs :
        /\ cyc[p].abortedAt = "getBlock" =>
              /\ cyc[p].pc = "aborted"
              /\ cyc[p].idx <= Len(cyc[p].logs)
              /\ Len(cyc[p].outcome) = cyc[p].idx - 1
              /\ cyc[p].emitted = CapturedOf(cyc[p].logs, cyc[p].outcome)
              /\ cyc[p].writes = 0
              /\ \A i \in 1 .. Len(pending) : pending[i].no # cyc[p].no
        /\ (/\ Queried(p)
            /\ cyc[p].before.abortedAt = "getBlock"
            /\ cyc[p].stored = cyc[p].before.stored
            /\ cyc[p].latest = cyc[p].before.latest)
              => /\ cyc[p].fromBlock = cyc[p].before.fromBlock
                 /\ cyc[p].toBlock = cyc[p].before.toBlock
                 /\ cyc[p].pc \in {"loop", "done"} =>
                       \A k \in 1 .. Len(cyc[p].before.emitted) :
                           \E i \in 1 .. Len(cyc[p].logs) :
                               cyc[p].logs[i].blockNumber = cyc[p].before.emitted[k].blockNumber
                 /\ cyc[p].emitted = CapturedOf(cyc[p].logs, cyc[p].outcome)

C18_Witness ==
    \E p \in Procs :
        /\ cyc[p].before.abortedAt = "getBlock"
        /\ cyc[p].before.emitted # <<>>
        /\ cyc[p].stored = cyc[p].before.stored
        /\ cyc[p].latest = cyc[p].before.latest
        /\ cyc[p].pc = "done"
        /\ cyc[p].emitted # <<>>
        /\ cyc[p].emitted[1] = cyc[p].before.emitted[1]

\* the instructions the try block finds for the event of the handled log
InstructionOfTx ==
    IF global.eventParsingInstructions.defined
       /\ "Transfer" \in DOMAIN global.eventParsingInstructions.byEvent
    THEN global.eventParsingInstructions.byEvent["Transfer"]
    ELSE EmptyRecord

\* the positions of the arguments whose instruction has isDistinctId
Marked ==
    { i \in 1 .. Len(tx.namedArgs) :
        /\ tx.namedArgs[i].name \in DOMAIN InstructionOfTx
        /\ InstructionOfTx[tx.namedArgs[i].name].isDistinctId }

\* C14: in a captured record the argument marked isDistinctId, the last one in
\* the order of the arguments when several are marked, stands with its coerced
\* value both under its own name and under distinct_id.
C14_DistinctIdIsLastMarked ==
    (tx.pc = "captured" /\ Marked # {}) =>
        LET i == CHOOSE k \in Marked : \A j \in Marked : j <= k
            a == tx.namedArgs[i]
        IN /\ "distinct_id" \in DOMAIN tx.eventData
           /\ tx.eventData[a.name] = Coerce(InstructionOfTx[a.name].argType, a.value).value
           /\ tx.eventData["distinct_id"] = tx.eventData[a.name]

\* the representation the documentation gives for an argType
Representation(argType) ==
    CASE argType = "eth"     -> "ether"
      [] argType = "number"  -> "number"
      [] argType = "int"     -> "decimal"
      [] argType = "string"  -> "text"
      [] argType = "hex"     -> "hex"
      [] argType = "boolean" -> "bool"

\* the decoded values an argType is meant for
Applicable(argType, v) ==
    CASE argType \in {"eth", "number", "int", "hex"} -> v.repr = "hex"
      [] argType = "string"                          -> v.repr = "bytes32"
      [] argType = "boolean"                         -> v.repr = "bool"

\* C15: in a captured record an argument whose instruction names one of the six
\* argTypes stands in the representation of that argType.
C15_SixArgTypesCoerced ==
    tx.pc = "captured" =>
        \A i \in 1 .. Len(tx.namedArgs) :
            LET a == tx.namedArgs[i]
            IN (/\ a.name \in DOMAIN InstructionOfTx
                /\ a.name # "distinct_id"
                /\ InstructionOfTx[a.name].argType \in ArgTypeOptions
                /\ Applicable(InstructionOfTx[a.name].argType, a.value))
                  => /\ tx.eventData[a.name].repr
                          = Representation(InstructionOfTx[a.name].argType)
                     /\ tx.eventData[a.name].val = a.value.val

\* C16: a setupPlugin that finds no contractAddress or no contractABI fails
\* with the error of that check and leaves global as it found it: no provider,
\* no contract, no interface, no parsing instructions; and no log is handled.
C16_SetupFailsUntouched ==
    /\ (setup.result # "none" /\ (~setup.contractAddress \/ setup.contractABI = "missing"))
          => /\ setup.result \in {"Contract address not provided!",
                                  "Contract ABI not provided!"}
             /\ ~setup.contractAddress => setup.result = "Contract address not provided!"
             /\ global = UndefinedGlobal
             /\ tx.pc = "idle"
    /\ setup.result = "ok"
          => /\ setup.contractAddress /\ setup.contractABI = "valid"
             /\ global.provider /\ global.contract /\ global.contractInterface
             /\ global.eventParsingInstructions.defined <=> setup.file = "valid"

C16_Witness ==
    /\ setup.result = "Contract ABI not provided!"
    /\ setup.contractAddress
    /\ setup.file = "valid"
    /\ global = UndefinedGlobal

\* C17: with at most one invocation executing at a time, no completing
\* storage.set replaces a checkpoint written by an invocation with a lower one.
C17_SequentialNeverLowers == [][hist.written => storage' >= storage]_vars

\* C19: in every captured record blockNumber and blockHash are the log's and
\* $timestamp is the block's, whatever the arguments of the event are named.
C19_BaseFieldsFromLog ==
    tx.pc = "captured" =>
        /\ tx.eventData["blockNumber"] = Num(tx.blockNumber)
        /\ tx.eventData["blockHash"] = Hash(BlockHash(tx.blockNumber))
        /\ tx.eventData["$timestamp"] = Num(Timestamp(BlockHash(tx.blockNumber)))

====
